---- MODULE Spec2Model ----
(***************************************************************************)
(* Model of surf_forecast.py: a sequential script that, for each of three  *)
(* locations, fetches an atmospheric and a marine hourly forecast, keeps   *)
(* the next 24 hours, outer-joins the two on the timestamp, derives        *)
(* compass points, arrows, wave energy and wave power, rounds the display  *)
(* columns, and then writes one HTML page per location.                    *)
(*                                                                         *)
(* Units.  Timestamps are minutes.  Wind speed, air temperature, wave      *)
(* height, wave period and the wave power index are fixed-point numbers in *)
(* hundredths; directions are tenths of a degree; wave energy is a whole   *)
(* number.  Arithmetic is exact decimal arithmetic.  A nullable number is  *)
(* a set: {} is NaN / null and {v} is the number v.                        *)
(***************************************************************************)
EXTENDS Integers, Sequences, FiniteSets, TLC

VARIABLES
  pc,       \* position of the script
  loc,      \* index into locations of the current loop iteration
  raw_w,    \* the atmospheric frame as fetched (lines 54-55)
  raw_m,    \* the marine frame as fetched (lines 64-65)
  now,      \* datetime.now() read for the current location (line 68)
  df_w,     \* the atmospheric frame, filtered by the slice (line 70)
  df_m,     \* the marine frame, filtered by the slice (line 71)
  df,       \* the merged frame of the current location
  dfs,      \* the list of per-location frames
  df_all,   \* the concatenation of dfs (line 111)
  docs,     \* the files written into docs/ in this run: name -> <<>> or <<page>>
  console,  \* the lines printed by the page loop
  err,      \* the exception that ended the script, or "none"
  pass,     \* 1, or 2 when the page loop is run a second time on the same df_all
  first_docs \* the files the first pass of the page loop wrote

vars == <<pc, loc, raw_w, raw_m, now, df_w, df_m, df, dfs, df_all, docs,
          console, err, pass, first_docs>>

----------------------------------------------------------------------------
\* Bounds of the model.

\* longest time array of a response, one location explored alone
MaxSamples == 2
\* longest time array of a response in the run over all locations
MaxRunSamples == 1
\* largest direction (tenths of a degree) fed to degrees_to_compass
MaxDeg == 7199
\* largest wave height and wave period (hundredths) fed to the derivation
MaxHeight == 150
MaxPeriod == 60

----------------------------------------------------------------------------
\* Program constants.

\* pd.Timedelta(hours=24), in minutes
WindowMinutes == 1440
\* (deg + 22.5) // 45, in tenths of a degree
HalfSector == 225
Sector == 450

NaN == {}
Num(v) == {v}
notnull(x) == x # {}
Val(x) == CHOOSE v \in x : TRUE

locations == <<"Las Palmas", "Telde", "Arguineguín">>
NumLocations == Len(locations)

webcams(name) ==
  CASE name = "Las Palmas" -> "camviewer_ext2.php?id=57"
    [] name = "Telde" -> "camviewer_ext2.php?id=43"
    [] name = "Arguineguín" -> "camviewer_ext2.php?id=71"

\* NFKD, combining marks dropped, lower case, spaces to underscores
slugify(name) ==
  CASE name = "Las Palmas" -> "las_palmas"
    [] name = "Telde" -> "telde"
    [] name = "Arguineguín" -> "arguineguin"

docs_dir == "docs"

----------------------------------------------------------------------------
\* Helper functions.

dirs == <<"N", "NE", "E", "SE", "S", "SW", "W", "NW">>

\* The same with the half sector truncated to whole degrees.
degrees_to_compass_whole(deg) ==
  dirs[(((deg + 220) \div Sector) % 8) + 1]

degrees_to_compass(deg) ==
  dirs[(((deg + HalfSector) \div Sector) % 8) + 1]

compass_to_arrow(dir_str) ==
  CASE dir_str = "N" -> "↓"
    [] dir_str = "NE" -> "↙"
    [] dir_str = "E" -> "←"
    [] dir_str = "SE" -> "↖"
    [] dir_str = "S" -> "↑"
    [] dir_str = "SW" -> "↗"
    [] dir_str = "W" -> "→"
    [] dir_str = "NW" -> "↘"
    [] OTHER -> ""

\* n / d rounded to the nearest integer, halves to the even one (numpy's round)
RoundHalfEven(n, d) ==
  LET q == n \div d
      r == n % d
  IN  IF 2 * r < d THEN q
      ELSE IF 2 * r > d THEN q + 1
      ELSE IF q % 2 = 0 THEN q ELSE q + 1

\* Series.round(1) of a column in hundredths
round1(x) == IF notnull(x) THEN Num(10 * RoundHalfEven(Val(x), 10)) ELSE NaN

Range(s) == {s[i] : i \in 1..Len(s)}

SeqsUpTo(S, n) == UNION {[1..k -> S] : k \in 0..n}

RECURSIVE Flatten(_)
Flatten(ss) == IF ss = <<>> THEN <<>> ELSE Head(ss) \o Flatten(Tail(ss))

----------------------------------------------------------------------------
\* 3) Next 24h slice.

cutoff(t) == t + WindowMinutes

\* The same filter with the cutoff included.
in_window_closed(time, t) == time >= t /\ time <= cutoff(t)

in_window(time, t) == time >= t /\ time < cutoff(t)

slice(frame, t) ==
  LET keep(r) == in_window(r.time, t) IN SelectSeq(frame, keep)

----------------------------------------------------------------------------
\* 4) Merge & rename.

times(frame) == {frame[i].time : i \in 1..Len(frame)}

at(frame, k) == LET same(r) == r.time = k IN SelectSeq(frame, same)

null_w == [windspeed_10m |-> NaN, winddirection_10m |-> NaN, temperature_2m |-> NaN]
null_m == [wave_height |-> NaN, wave_direction |-> NaN, wave_period |-> NaN]

\* one merged row, with the columns renamed
joined(k, w, m) ==
  [time |-> k,
   Wind_Speed |-> w.windspeed_10m,
   Wind_Direction |-> w.winddirection_10m,
   Air_Temp |-> w.temperature_2m,
   Wave_Height |-> m.wave_height,
   Wave_Direction |-> m.wave_direction,
   Wave_Period |-> m.wave_period]

\* the rows of key k: every left row paired with every right row of that key,
\* an unmatched side filled with nulls
rows_of_key(k, left, right) ==
  LET L == at(left, k)
      R == at(right, k)
  IN  IF R = <<>> THEN [i \in 1..Len(L) |-> joined(k, L[i], null_m)]
      ELSE IF L = <<>> THEN [j \in 1..Len(R) |-> joined(k, null_w, R[j])]
      ELSE [n \in 1..(Len(L) * Len(R)) |->
              joined(k, L[((n - 1) \div Len(R)) + 1], R[((n - 1) % Len(R)) + 1])]

\* DataFrame.sort_values("time"): insertion sort by time
RECURSIVE insert_by_time(_, _)
insert_by_time(r, sorted) ==
  IF sorted = <<>> THEN <<r>>
  ELSE IF r.time < Head(sorted).time THEN <<r>> \o sorted
  ELSE <<Head(sorted)>> \o insert_by_time(r, Tail(sorted))

RECURSIVE sort_values(_)
sort_values(frame) ==
  IF frame = <<>> THEN <<>>
  ELSE insert_by_time(frame[Len(frame)], sort_values(SubSeq(frame, 1, Len(frame) - 1)))

\* pd.merge(..., on="time", how="outer"): one group of rows per key of either
\* frame.  The keys are taken in order of appearance, left frame first; the
\* order is settled by the sort_values that follows.
RECURSIVE key_order(_, _)
key_order(frame, seen) ==
  IF frame = <<>> THEN <<>>
  ELSE IF Head(frame).time \in seen THEN key_order(Tail(frame), seen)
  ELSE <<Head(frame).time>> \o key_order(Tail(frame), seen \cup {Head(frame).time})

\* The same merge keeping only the keys of the left frame (how="left").
merge_left(left, right) ==
  LET keys == key_order(left, {})
  IN  Flatten([i \in 1..Len(keys) |-> rows_of_key(keys[i], left, right)])

merge_outer(left, right) ==
  LET keys == key_order(left \o right, {})
  IN  Flatten([i \in 1..Len(keys) |-> rows_of_key(keys[i], left, right)])

merge_and_sort(left, right) == sort_values(merge_outer(left, right))

----------------------------------------------------------------------------
\* 5) Compass & arrows, 6) Energy & power, 7) Round numeric.

compass_of(x) == IF notnull(x) THEN degrees_to_compass(Val(x)) ELSE ""

\* 125 * H^2 * T rounded to 0 decimals; H and T in hundredths
wave_energy(h, p) ==
  IF notnull(h) /\ notnull(p)
  THEN Num(RoundHalfEven(125 * Val(h) * Val(h) * Val(p), 1000000))
  ELSE NaN

\* H * T rounded to 2 decimals, in hundredths
wave_power_index(h, p) ==
  IF notnull(h) /\ notnull(p)
  THEN Num(RoundHalfEven(Val(h) * Val(p), 100))
  ELSE NaN

compass_and_arrows(r) ==
  LET wc == compass_of(r.Wind_Direction)
      vc == compass_of(r.Wave_Direction)
  IN  [time |-> r.time,
       Wind_Speed |-> r.Wind_Speed, Wind_Direction |-> r.Wind_Direction,
       Air_Temp |-> r.Air_Temp, Wave_Height |-> r.Wave_Height,
       Wave_Direction |-> r.Wave_Direction, Wave_Period |-> r.Wave_Period,
       Wind_Dir_Compass |-> wc, Wave_Dir_Compass |-> vc,
       Wind_Arrow |-> compass_to_arrow(wc), Wave_Arrow |-> compass_to_arrow(vc),
       Wave_Energy |-> NaN, Wave_Power_Index |-> NaN, Location |-> ""]

energy_and_power(r) ==
  [r EXCEPT !.Wave_Energy = wave_energy(r.Wave_Height, r.Wave_Period),
            !.Wave_Power_Index = wave_power_index(r.Wave_Height, r.Wave_Period)]

round_numeric(r) ==
  [r EXCEPT !.Wind_Speed = round1(r.Wind_Speed),
            !.Air_Temp = round1(r.Air_Temp),
            !.Wave_Height = round1(r.Wave_Height),
            !.Wave_Period = round1(r.Wave_Period)]

\* The same steps with the display rounding done before energy and power.
derive_rounding_first(r, name) ==
  [energy_and_power(round_numeric(compass_and_arrows(r))) EXCEPT !.Location = name]

derive_row(r, name) ==
  [round_numeric(energy_and_power(compass_and_arrows(r))) EXCEPT !.Location = name]

derive(frame, name) == [i \in 1..Len(frame) |-> derive_row(frame[i], name)]

----------------------------------------------------------------------------
\* Styling helpers.

highlight == "color: #33cccc; font-weight: bold"

highlight_direction(val) == IF val \in STRING THEN highlight ELSE ""

\* int(220 - min(200, val * 50)); val in hundredths, NaN loses every comparison
\* inside min, which then returns 200
color_wave(val) ==
  LET c == IF notnull(val) /\ Val(val) * 50 < 200 * 100
           THEN (220 * 100 - Val(val) * 50) \div 100
           ELSE 220 - 200
  IN  <<"background-color: rgb", c, c, 255>>

\* int(220 - min(200, val / 4)); val a whole number
color_energy(val) ==
  LET c == IF notnull(val) /\ Val(val) < 200 * 4
           THEN (220 * 4 - Val(val)) \div 4
           ELSE 220 - 200
  IN  <<"background-color: rgb", 255, c, 150>>

\* "{:.1f}" of a column in hundredths: the text, as a number of tenths
format_1f(x) == IF notnull(x) THEN Num(RoundHalfEven(Val(x), 10)) ELSE NaN

\* "{:.0f}" of a whole number
format_0f(x) == x

cell(text, style) == [text |-> text, style |-> style]

\* one row of the Styler: the nine selected columns, formatted and styled
styled_row(r) ==
  [time |-> r.time,
   Wind_Speed |-> cell(format_1f(r.Wind_Speed), ""),
   Wind_Arrow |-> cell(r.Wind_Arrow, highlight_direction(r.Wind_Arrow)),
   Air_Temp |-> cell(format_1f(r.Air_Temp), ""),
   Wave_Height |-> cell(format_1f(r.Wave_Height), color_wave(r.Wave_Height)),
   Wave_Arrow |-> cell(r.Wave_Arrow, highlight_direction(r.Wave_Arrow)),
   Wave_Period |-> cell(format_1f(r.Wave_Period), ""),
   Wave_Power_Index |-> cell(r.Wave_Power_Index, ""),
   Wave_Energy |-> cell(format_0f(r.Wave_Energy), color_energy(r.Wave_Energy))]

\* df_all[df_all["Location"] == name][[...]].style.format(...).applymap(...)
styled(all, name) ==
  LET here(r) == r.Location = name
      sel == SelectSeq(all, here)
  IN  [i \in 1..Len(sel) |-> styled_row(sel[i])]

\* The identifiers a Styler can draw for its table: Styler generates one per
\* instance when the caller passes none, and the script passes none.
StylerUuids == {"3f2a1", "9c0de"}

\* Styler.to_html(): the table id and the CSS selectors carry the Styler's uuid
to_html(rows, uuid) == [id |-> uuid, rows |-> rows]

page_file(name) == <<slugify(name), ".html">>

outpath(name) == <<docs_dir, page_file(name)>>

page(name, html_table) ==
  [title |-> name, h1 |-> name, webcam |-> webcams(name), table |-> html_table]

Files == {outpath(locations[i]) : i \in 1..NumLocations}

\* The same write, leaving out a location that has no rows.
write_page_unless_empty(files, name, html_table) ==
  IF html_table.rows = <<>> THEN files
  ELSE [files EXCEPT ![outpath(name)] = <<page(name, html_table)>>]

\* open(outpath, "w") and f.write(...): the file is created or overwritten
write_page(files, name, html_table) ==
  [files EXCEPT ![outpath(name)] = <<page(name, html_table)>>]

----------------------------------------------------------------------------
\* The responses the two endpoints can give.

\* now is read after both fetches; with now = 60 the instants below are one
\* before now, now itself, one minute before the cutoff and the cutoff
NowSet == {0, 60}
TimeSet == {0, 60, WindowMinutes + 59, WindowMinutes + 60}
\* one instant inside and one outside the window of every now
RunTimeSet == {60, WindowMinutes + 60}

weather_sample(t) ==
  [time |-> t, windspeed_10m |-> Num(523), winddirection_10m |-> Num(100),
   temperature_2m |-> Num(2234)]

marine_sample(t) ==
  [time |-> t, wave_height |-> Num(125), wave_direction |-> Num(1900),
   wave_period |-> Num(705)]

\* an hour whose values the endpoint left null
marine_gap(t) ==
  [time |-> t, wave_height |-> NaN, wave_direction |-> NaN, wave_period |-> NaN]

AllWeather == SeqsUpTo({weather_sample(t) : t \in TimeSet}, MaxSamples)
AllMarine ==
  SeqsUpTo({marine_sample(t) : t \in TimeSet} \cup {marine_gap(t) : t \in TimeSet},
           MaxSamples)
RunWeather == SeqsUpTo({weather_sample(t) : t \in RunTimeSet}, MaxRunSamples)
RunMarine == SeqsUpTo({marine_sample(t) : t \in RunTimeSet}, MaxRunSamples)

----------------------------------------------------------------------------
\* Control flow.

\* the for loop over locations.items() (line 46): the next iteration, or the
\* statement after the loop
next_location(l) ==
  IF l < NumLocations THEN [pc |-> "fetch_w", loc |-> l + 1]
  ELSE [pc |-> "concat", loc |-> l]

\* the for loop over locations (line 124)
next_page(l) ==
  IF l < NumLocations THEN [pc |-> "write", loc |-> l + 1]
  ELSE [pc |-> "all_done", loc |-> l]

\* The same with the failing location skipped and the loop continued.
on_fetch_error_skip(l) == next_location(l)

\* requests.get(...).json() raises and nothing catches it: the script ends
on_fetch_error(l) == [pc |-> "failed", loc |-> l]

\* The same with the failing page skipped and the loop continued.
on_write_error_skip(l) == next_page(l)

\* open(...) or f.write(...) raises and nothing catches it: the script ends
on_write_error(l) == [pc |-> "failed", loc |-> l]

----------------------------------------------------------------------------
\* The script.

Init ==
  /\ pc = "fetch_w"
  /\ loc = 1
  /\ raw_w = <<>> /\ raw_m = <<>>
  /\ now = 0
  /\ df_w = <<>> /\ df_m = <<>>
  /\ df = <<>>
  /\ dfs = <<>>
  /\ df_all = <<>>
  /\ docs = [f \in Files |-> <<>>]
  /\ console = <<>>
  /\ err = "none"
  /\ pass = 1
  /\ first_docs = [f \in Files |-> <<>>]

\* 1) Weather
FetchWeather(responses) ==
  /\ pc = "fetch_w"
  /\ \E r \in responses : raw_w' = r /\ df_w' = r
  /\ pc' = "fetch_m"
  /\ UNCHANGED <<loc, raw_m, now, df_m, df, dfs, df_all, docs, console, err,
                 pass, first_docs>>

\* 2) Marine
FetchMarine(responses) ==
  /\ pc = "fetch_m"
  /\ \E r \in responses : raw_m' = r /\ df_m' = r
  /\ pc' = "slice"
  /\ UNCHANGED <<loc, raw_w, now, df_w, df, dfs, df_all, docs, console, err,
                 pass, first_docs>>

\* a request fails: network error, or a body that is not the expected JSON
FetchFails ==
  /\ pc \in {"fetch_w", "fetch_m"}
  /\ err' = "FetchError"
  /\ pc' = on_fetch_error(loc).pc
  /\ loc' = on_fetch_error(loc).loc
  /\ UNCHANGED <<raw_w, raw_m, now, df_w, df_m, df, dfs, df_all, docs, console,
                 pass, first_docs>>

\* 3) Next 24h slice
Slice ==
  /\ pc = "slice"
  /\ \E t \in NowSet :
       /\ now' = t
       /\ df_w' = slice(df_w, t)
       /\ df_m' = slice(df_m, t)
  /\ pc' = "merge"
  /\ UNCHANGED <<loc, raw_w, raw_m, df, dfs, df_all, docs, console, err, pass,
                 first_docs>>

\* 4) Merge & rename
Merge ==
  /\ pc = "merge"
  /\ df' = merge_and_sort(df_w, df_m)
  /\ pc' = "derive"
  /\ UNCHANGED <<loc, raw_w, raw_m, now, df_w, df_m, dfs, df_all, docs, console,
                 err, pass, first_docs>>

\* 5) to 7), df["Location"] = name and dfs.append(df)
Derive ==
  /\ pc = "derive"
  /\ df' = derive(df, locations[loc])
  /\ dfs' = Append(dfs, df')
  /\ pc' = next_location(loc).pc
  /\ loc' = next_location(loc).loc
  /\ UNCHANGED <<raw_w, raw_m, now, df_w, df_m, df_all, docs, console, err,
                 pass, first_docs>>

\* df_all = pd.concat(dfs, ignore_index=True)
Concat ==
  /\ pc = "concat"
  /\ df_all' = Flatten(dfs)
  /\ pc' = "write"
  /\ loc' = 1
  /\ UNCHANGED <<raw_w, raw_m, now, df_w, df_m, df, dfs, docs, console, err,
                 pass, first_docs>>

\* one iteration of the page loop, the file written
WritePage ==
  /\ pc = "write"
  /\ \E uuid \in StylerUuids :
       LET name == locations[loc]
           html_table == to_html(styled(df_all, name), uuid)
       IN  /\ docs' = write_page(docs, name, html_table)
           /\ console' = console \o <<<<"Generating:", page_file(name)>>,
                                      <<"Created", page_file(name)>>>>
  /\ pc' = next_page(loc).pc
  /\ loc' = next_page(loc).loc
  /\ UNCHANGED <<raw_w, raw_m, now, df_w, df_m, df, dfs, df_all, err, pass,
                 first_docs>>

\* one iteration of the page loop, the file system refusing the write
WritePageFails ==
  /\ pc = "write"
  /\ console' = Append(console, <<"Generating:", page_file(locations[loc])>>)
  /\ err' = "WriteError"
  /\ pc' = on_write_error(loc).pc
  /\ loc' = on_write_error(loc).loc
  /\ UNCHANGED <<raw_w, raw_m, now, df_w, df_m, df, dfs, df_all, docs, pass,
                 first_docs>>

\* print("All done.")
AllDone ==
  /\ pc = "all_done"
  /\ console' = Append(console, <<"All done.", <<>>>>)
  /\ pc' = "done"
  /\ UNCHANGED <<loc, raw_w, raw_m, now, df_w, df_m, df, dfs, df_all, docs, err,
                 pass, first_docs>>

\* the page loop run once more on the same df_all, the files of the first pass
\* kept aside
WriteAgain ==
  /\ pc = "done"
  /\ pass = 1
  /\ err = "none"
  /\ first_docs' = docs
  /\ pass' = 2
  /\ pc' = "write"
  /\ loc' = 1
  /\ UNCHANGED <<raw_w, raw_m, now, df_w, df_m, df, dfs, df_all, docs, console,
                 err>>

Next ==
  \/ FetchWeather(RunWeather)
  \/ FetchMarine(RunMarine)
  \/ FetchFails
  \/ Slice
  \/ Merge
  \/ Derive
  \/ Concat
  \/ WritePage
  \/ WritePageFails
  \/ AllDone

\* the whole script over the three locations
Spec == Init /\ [][Next]_vars

\* the whole script, and then the page loop a second time
RenderTwiceNext == Next \/ WriteAgain

RenderTwiceSpec == Init /\ [][RenderTwiceNext]_vars

\* the first iteration of the fetch loop, on every response up to MaxSamples
LocationNext ==
  \/ loc = 1 /\ FetchWeather(AllWeather)
  \/ loc = 1 /\ FetchMarine(AllMarine)
  \/ loc = 1 /\ Slice
  \/ loc = 1 /\ Merge
  \/ loc = 1 /\ Derive

LocationSpec == Init /\ [][LocationNext]_vars

\* the first iteration from the slice on
ProcessNext ==
  \/ loc = 1 /\ Slice
  \/ loc = 1 /\ Merge
  \/ loc = 1 /\ Derive

\* both responses fetched; the atmospheric one holds one hour, of any direction
CompassInit ==
  /\ pc = "slice"
  /\ loc = 1
  /\ \E d \in 0..MaxDeg :
       raw_w = <<[weather_sample(60) EXCEPT !.winddirection_10m = Num(d)]>>
  /\ raw_m = <<>>
  /\ now = 0
  /\ df_w = raw_w /\ df_m = raw_m
  /\ df = <<>>
  /\ dfs = <<>>
  /\ df_all = <<>>
  /\ docs = [f \in Files |-> <<>>]
  /\ console = <<>>
  /\ err = "none"
  /\ pass = 1
  /\ first_docs = [f \in Files |-> <<>>]

CompassSpec == CompassInit /\ [][ProcessNext]_vars

\* both responses fetched; the marine one holds one hour, of any height and period
MetricInit ==
  /\ pc = "slice"
  /\ loc = 1
  /\ raw_w = <<>>
  /\ \E h \in 0..MaxHeight, p \in 0..MaxPeriod :
       raw_m = <<[marine_sample(60) EXCEPT !.wave_height = Num(h),
                                           !.wave_period = Num(p)]>>
  /\ now = 0
  /\ df_w = raw_w /\ df_m = raw_m
  /\ df = <<>>
  /\ dfs = <<>>
  /\ df_all = <<>>
  /\ docs = [f \in Files |-> <<>>]
  /\ console = <<>>
  /\ err = "none"
  /\ pass = 1
  /\ first_docs = [f \in Files |-> <<>>]

MetricSpec == MetricInit /\ [][ProcessNext]_vars

----------------------------------------------------------------------------
\* Properties.

\* the frame of the first location is merged (or merged and derived)
Joined == pc = "derive" \/ (pc = "fetch_w" /\ loc = 2)

\* the direction and the compass point of the only atmospheric hour
TheDeg == Val(raw_w[1].winddirection_10m)
TheCompass == dfs[1][1].Wind_Dir_Compass

\* C1: every direction falls in the 45-degree sector around its compass point:
\* N covers [337.5, 360) and [0, 22.5), the k-th point after N covers
\* [45k - 22.5, 45k + 22.5), and a direction one full turn further gets the
\* same point.
CompassSectors ==
  Len(dfs) = 1 =>
    LET a == TheDeg % 3600
    IN  /\ (a < 225 \/ a >= 3375) => TheCompass = "N"
        /\ (225 <= a /\ a < 675) => TheCompass = "NE"
        /\ (675 <= a /\ a < 1125) => TheCompass = "E"
        /\ (1125 <= a /\ a < 1575) => TheCompass = "SE"
        /\ (1575 <= a /\ a < 2025) => TheCompass = "S"
        /\ (2025 <= a /\ a < 2475) => TheCompass = "SW"
        /\ (2475 <= a /\ a < 2925) => TheCompass = "W"
        /\ (2925 <= a /\ a < 3375) => TheCompass = "NW"

\* 22.4 degrees one full turn on is still N
CompassSectorsWitness ==
  Len(dfs) = 1 /\ TheDeg = 3600 + 224 /\ TheCompass = "N"

kept(sample, frame) == \E j \in 1..Len(frame) : frame[j] = sample

\* C2: after the slice, a fetched sample of either source is in the filtered
\* frame exactly when now <= time < now + 24h, with one now for both sources.
WindowFilter ==
  pc = "merge" =>
    /\ \A i \in 1..Len(raw_w) :
         kept(raw_w[i], df_w) <=> (now <= raw_w[i].time /\ raw_w[i].time < now + 1440)
    /\ \A i \in 1..Len(raw_m) :
         kept(raw_m[i], df_m) <=> (now <= raw_m[i].time /\ raw_m[i].time < now + 1440)
    /\ Len(df_w) <= Len(raw_w)
    /\ Len(df_m) <= Len(raw_m)

\* a sample at now and one a minute before the cutoff are kept, one at the
\* cutoff is dropped
WindowFilterWitness ==
  /\ pc = "merge"
  /\ now \in times(df_w)
  /\ now + 1439 \in times(df_m)
  /\ now + 1440 \in times(raw_w) \ times(df_w)

\* C3: the merged frame has a row for t exactly when t is in the filtered
\* atmospheric or the filtered marine frame; a row whose t is not in the marine
\* frame has null marine columns, one whose t is not in the atmospheric frame
\* has null atmospheric columns, and the other rows carry a sample of each.
OuterJoin ==
  Joined =>
    /\ times(df) = times(df_w) \cup times(df_m)
    /\ \A i \in 1..Len(df) :
         /\ df[i].time \notin times(df_m) =>
              /\ df[i].Wave_Height = {}
              /\ df[i].Wave_Direction = {}
              /\ df[i].Wave_Period = {}
         /\ df[i].time \notin times(df_w) =>
              /\ df[i].Wind_Speed = {}
              /\ df[i].Wind_Direction = {}
              /\ df[i].Air_Temp = {}
         /\ df[i].time \in times(df_m) =>
              \E j \in 1..Len(df_m) :
                /\ df_m[j].time = df[i].time
                /\ df[i].Wave_Height \in {df_m[j].wave_height, round1(df_m[j].wave_height)}
                /\ df[i].Wave_Direction = df_m[j].wave_direction
         /\ df[i].time \in times(df_w) =>
              \E j \in 1..Len(df_w) :
                /\ df_w[j].time = df[i].time
                /\ df[i].Wind_Speed \in {df_w[j].windspeed_10m, round1(df_w[j].windspeed_10m)}
                /\ df[i].Wind_Direction = df_w[j].winddirection_10m

\* an hour only the atmospheric frame has, an hour only the marine frame has,
\* and a fetched hour outside the window
OuterJoinWitness ==
  /\ pc = "derive"
  /\ \E i \in 1..Len(df) : df[i].time \notin times(df_m)
  /\ \E i \in 1..Len(df) : df[i].time \notin times(df_w)
  /\ times(raw_w) \ times(df) # {}

\* C4: the rows of a location's table have strictly increasing timestamps
\* (sorted, and no timestamp twice), whatever the time arrays hold.
UniqueSortedTimes ==
  Joined => \A i \in 1..Len(df) : \A j \in 1..Len(df) :
              i < j => df[i].time < df[j].time

\* the height and period of the only marine hour, as fetched
TheHeight == Val(raw_m[1].wave_height)
ThePeriod == Val(raw_m[1].wave_period)

\* C5: energy is 125 * h^2 * p rounded to 0 decimals and power is h * p
\* rounded to 2 decimals, h and p being the fetched height and period; the
\* table's height and period are the fetched ones rounded once to 1 decimal.
MetricsFromUnrounded ==
  Len(dfs) = 1 =>
    LET r == dfs[1][1]
    IN  /\ r.Wave_Energy = {RoundHalfEven(125 * TheHeight * TheHeight * ThePeriod, 1000000)}
        /\ r.Wave_Power_Index = {RoundHalfEven(TheHeight * ThePeriod, 100)}
        /\ r.Wave_Height = {10 * RoundHalfEven(TheHeight, 10)}
        /\ r.Wave_Period = {10 * RoundHalfEven(ThePeriod, 10)}
        /\ r.Wind_Speed = {}
        /\ r.Air_Temp = {}

\* h = 1.46, p = 0.58: energy 155 and power 0.85 from the fetched values, where
\* the displayed 1.5 and 0.6 would give 169 and 0.90
MetricsFromUnroundedWitness ==
  /\ Len(dfs) = 1
  /\ TheHeight = 146 /\ ThePeriod = 58
  /\ dfs[1][1].Wave_Energy = {155}
  /\ dfs[1][1].Wave_Power_Index = {85}
  /\ dfs[1][1].Wave_Height = {150}

\* the page loop has printed its "Generating:" line for location i
attempted(i) ==
  \E n \in 1..Len(console) : console[n] = <<"Generating:", page_file(locations[i])>>

written(i) == docs[outpath(locations[i])] # <<>>

ThePage(i) == docs[outpath(locations[i])][1]

\* the page loop has gone past location i without an exception
PageDone(i) == (pc = "write" /\ i < loc) \/ pc \in {"all_done", "done"}

\* C6: a location with no sample of either source in the window gets an empty
\* table, and its page is written with a table of zero rows; the script ends
\* in failure only through a failed request or a failed write.
EmptyWindowPage ==
  /\ (pc = "derive" /\ df_w = <<>> /\ df_m = <<>>) => df = <<>>
  /\ (pc \in {"fetch_w", "concat"} /\ Len(dfs) >= 1 /\ df_w = <<>> /\ df_m = <<>>)
       => dfs[Len(dfs)] = <<>>
  /\ \A i \in 1..NumLocations :
       (PageDone(i) /\ dfs[i] = <<>>) =>
          /\ written(i)
          /\ ThePage(i).table.rows = <<>>
          /\ ThePage(i).title = locations[i]
  /\ pc = "failed" => err \in {"FetchError", "WriteError"}

\* the run is over, the second location had nothing in its window and its
\* page is there with no rows, next to a page that has a row
EmptyWindowPageWitness ==
  /\ pc = "done"
  /\ dfs[2] = <<>>
  /\ written(2)
  /\ ThePage(2).table.rows = <<>>
  /\ ThePage(1).table.rows # <<>>

arrow_rule(c) == (c.style = highlight) <=> (c.text # "")

\* C7: in a written page an arrow cell carries the highlight style exactly
\* when its text is not empty.
ArrowHighlightOnlyNonEmpty ==
  \A i \in 1..NumLocations :
    written(i) =>
      \A n \in 1..Len(ThePage(i).table.rows) :
        /\ arrow_rule(ThePage(i).table.rows[n].Wind_Arrow)
        /\ arrow_rule(ThePage(i).table.rows[n].Wave_Arrow)

\* C8 as stated: when a write failure has ended a location's page, the pages
\* of the locations after it are still attempted.
WriteFailureIsolated ==
  (pc \in {"failed", "done"} /\ err = "WriteError") =>
    \A i \in 1..NumLocations : attempted(i)

\* C8 as amended: a write failure ends the whole run at that location; its
\* page and the pages of the locations after it are not written, the later
\* ones not even attempted, and the pages before it stay written.
WriteFailureAbortsRun ==
  err = "WriteError" =>
    /\ pc = "failed"
    /\ attempted(loc)
    /\ ~written(loc)
    /\ \A i \in 1..NumLocations :
         /\ i > loc => (~attempted(i) /\ ~written(i))
         /\ i < loc => written(i)

\* the write of the second page failed: the first is there, the third is not
WriteFailureAbortsRunWitness ==
  /\ err = "WriteError"
  /\ loc = 2
  /\ written(1)
  /\ ~written(3)
  /\ ~attempted(3)

\* C9: the page loop run twice on the same df_all leaves the same files.
RenderDeterministic ==
  (pc = "done" /\ pass = 2) => docs = first_docs

\* C10: a page is written, or attempted, only once every location has been
\* fetched and derived, and a failed fetch leaves no page behind.
TwoPhase ==
  /\ \A i \in 1..NumLocations :
       (written(i) \/ attempted(i)) =>
          /\ Len(dfs) = NumLocations
          /\ pc \in {"write", "all_done", "done", "failed"}
          /\ err # "FetchError"
  /\ err = "FetchError" =>
       /\ pc = "failed"
       /\ \A i \in 1..NumLocations : ~written(i) /\ ~attempted(i)

\* the marine request of the third location failed after two locations were
\* derived: no page
TwoPhaseWitness ==
  /\ err = "FetchError"
  /\ loc = 3
  /\ Len(dfs) = 2
  /\ dfs[1] # <<>>
  /\ \A i \in 1..NumLocations : ~written(i)

====
